---- MODULE Spec2Model ----
(***************************************************************************)
(* Model of the order-book aggregator of orderly (src/src/orderbook.rs)    *)
(* together with the supervisor loop (src/src/orderly.rs, Connector::run)  *)
(* that applies each InTick to the per-venue books, recomputes the merged  *)
(* OutTick and publishes it, and the stream service (src/src/grpc.rs) that *)
(* serves the published value to its callers.                              *)
(*                                                                         *)
(* Decimals are exact in the program (rust_decimal); they are modelled as  *)
(* integers counting units of the smallest price / amount increment, so    *)
(* equality, ordering and subtraction are exact here too.                  *)
(***************************************************************************)
EXTENDS Integers, Sequences, FiniteSets

VARIABLES
    exchanges,  \* Exchanges: the four venue books
    prev_exchanges, \* the books as they were when the last InTick was taken
    in_tick,    \* the InTick the ingress branch handled last (local `t`)
    out_tick,   \* the value held by the watch channel (the broadcast slot)
    nticks,     \* number of InTicks handled so far
    version,    \* the watch channel's version as the callers see it
    sent,       \* the values sent while callers are served, in order
    readers,    \* the callers holding a read guard of the slot's RwLock
    pub_pc,     \* where the ingress branch stands: select, write, send
    new_tick,   \* the ingress branch's local `out_tick`, not yet sent
    pc,         \* where each caller of the stream service stands
    seen,       \* the version each caller's cloned Receiver has marked seen
    received,   \* the last two items each caller was given, oldest first
    sup,        \* where Connector::run stands
    cause,      \* why the supervisor loop was left
    result,     \* what Connector::run returned
    no_venue,   \* the venues whose no_<venue> flag is set
    arrived,    \* per venue, the number of InTicks decoded from its frames
    spawned,    \* the enqueue tasks spawned and not yet run
    ingress,    \* the ingress channel: InTicks enqueued and not yet taken
    applied,    \* per venue, the arrival numbers of the InTicks applied
    stdin,      \* the standard-input task: open, or closed after /exit
    forwarded,  \* the lines forwarded to Coinbase, in order
    closing,    \* the sessions whose close handshake has been started
    send_failed, \* an enqueue task found the ingress channel closed
    frame,      \* the venue and message parse was called with last
    parsed,     \* what that call of parse returned
    ws_pc,      \* per session, where websocket::close stands
    inbound,    \* per session, the items its stream yields before it ends
    stdin_q     \* the channel of the standard-input task: lines not yet taken

aggvars == <<exchanges, prev_exchanges, in_tick, out_tick, nticks>>
slotvars == <<version, sent, readers>>
pubvars == <<pub_pc, new_tick>>
clientvars == <<pc, seen, received>>

supvars == <<sup, cause, result, no_venue, arrived, spawned, ingress,
             applied, stdin, forwarded, closing, send_failed>>

wirevars == <<frame, parsed, ws_pc, inbound, stdin_q>>

vars == <<aggvars, slotvars, pubvars, clientvars, wirevars, supvars>>

----------------------------------------------------------------------------
(* Bounds of the model *)

MaxPrice  == 11   \* prices are 1..MaxPrice
MaxAmount == 2    \* amounts are 0..MaxAmount
MaxTicks  == 2    \* InTicks handled in one behaviour

(* Program constant: the depth 10 passed to extend_and_keep, take and      *)
(* to_levels.                                                              *)
Depth == 10

----------------------------------------------------------------------------
(* Data model *)

Bid == "Bid"
Ask == "Ask"
Side == {Bid, Ask}

Bitstamp == "bitstamp"
Binance  == "binance"
Kraken   == "kraken"
Coinbase == "coinbase"
Exchange == {Bitstamp, Binance, Kraken, Coinbase}

Level(side, price, amount, exchange) ==
    [side |-> side, price |-> price, amount |-> amount, exchange |-> exchange]

InTick(exchange, bids, asks) ==
    [exchange |-> exchange, bids |-> bids, asks |-> asks]

OutTick(spread, bids, asks) ==
    [spread |-> spread, bids |-> bids, asks |-> asks]

OutTickNew == OutTick(0, <<>>, <<>>)

OrderDepthsNew == [bids |-> <<>>, asks |-> <<>>]

(* A LevelsMap (BTreeMap<Decimal, Level>) is a function from the set of    *)
(* its keys to levels; the empty map is the function with empty domain.    *)
EmptyMap == [p \in {} |-> 0]

OrderDepthsMapNew == [bids |-> EmptyMap, asks |-> EmptyMap]

ExchangesNew ==
    [bitstamp |-> OrderDepthsNew,
     binance  |-> OrderDepthsNew,
     kraken   |-> OrderDepthsMapNew,
     coinbase |-> OrderDepthsMapNew]

----------------------------------------------------------------------------
(* impl Ord for Level: -1 Less, 0 Equal, 1 Greater *)

CmpInt(a, b) == IF a < b THEN -1 ELSE IF a > b THEN 1 ELSE 0

(* Variant: the amount tie-break of a bid taken in the ask direction. *)
LevelCmp_BidAmountReversed(self, other) ==
    LET ord == CmpInt(self.price, other.price) IN
    IF ord = 0 THEN -CmpInt(self.amount, other.amount) ELSE ord

(* Variant: the amount tie-break of an ask not reversed. *)
LevelCmp_AskAmountNotReversed(self, other) ==
    LET ord == CmpInt(self.price, other.price) IN
    IF ord = 0 THEN CmpInt(self.amount, other.amount) ELSE ord

LevelCmp(self, other) ==
    LET ord == CmpInt(self.price, other.price) IN
    IF ord = 0
    THEN IF self.side = Bid
         THEN CmpInt(self.amount, other.amount)
         ELSE -CmpInt(self.amount, other.amount)
    ELSE ord

----------------------------------------------------------------------------
(* Sequence helpers *)

Take(s, n) == IF Len(s) > n THEN SubSeq(s, 1, n) ELSE s

Rev(s) == [i \in 1..Len(s) |-> s[Len(s) + 1 - i]]

(* slice::sort_unstable: the result is a permutation of the input in       *)
(* non-decreasing LevelCmp order; the relative order of elements that      *)
(* compare Equal is not specified.  tie chooses, for the whole sort,       *)
(* whether an element is placed after (TRUE) or before (FALSE) the         *)
(* elements already placed that compare Equal to it.                       *)
SortInsert(sorted, x, tie) ==
    LET k == Cardinality({i \in 1..Len(sorted) :
                             \/ LevelCmp(sorted[i], x) < 0
                             \/ tie /\ LevelCmp(sorted[i], x) = 0})
    IN SubSeq(sorted, 1, k) \o <<x>> \o SubSeq(sorted, k + 1, Len(sorted))

RECURSIVE SortFrom(_, _, _, _)
SortFrom(sorted, levels, i, tie) ==
    IF i > Len(levels) THEN sorted
    ELSE SortFrom(SortInsert(sorted, levels[i], tie), levels, i + 1, tie)

SortUnstable(levels, tie) == SortFrom(<<>>, levels, 1, tie)

----------------------------------------------------------------------------
(* LevelsMap operations *)

Len0(m) == Cardinality(DOMAIN m)

(* The key at 0-based position i of the ascending key order. *)
KeyAt(m, i) ==
    CHOOSE k \in DOMAIN m : Cardinality({j \in DOMAIN m : j < k}) = i

(* BTreeMap::values: the levels in ascending key order. *)
Values(m) == [i \in 1..Len0(m) |-> m[KeyAt(m, i - 1)]]

(* into_iter().map(|l| (l.price, l)).collect::<LevelsMap>(): a later       *)
(* level of the same price overwrites an earlier one.                      *)
Collect(levels) ==
    [p \in {levels[i].price : i \in 1..Len(levels)} |->
        LET last == CHOOSE i \in 1..Len(levels) :
                        /\ levels[i].price = p
                        /\ \A j \in 1..Len(levels) :
                               levels[j].price = p => j <= i
        IN levels[last]]

(* Variant: entries of self kept where both maps hold the price. *)
Extend_KeepSelf(self, other) ==
    [p \in (DOMAIN self) \cup (DOMAIN other) |->
        IF p \in DOMAIN self THEN self[p] ELSE other[p]]

(* Variant: the amounts of a price held by both maps added up. *)
Extend_SumAmounts(self, other) ==
    [p \in (DOMAIN self) \cup (DOMAIN other) |->
        IF p \in DOMAIN other
        THEN IF p \in DOMAIN self
             THEN [other[p] EXCEPT !.amount = @ + self[p].amount]
             ELSE other[p]
        ELSE self[p]]

(* BTreeMap::extend: entries of other overwrite entries of self. *)
Extend(self, other) ==
    [p \in (DOMAIN self) \cup (DOMAIN other) |->
        IF p \in DOMAIN other THEN other[p] ELSE self[p]]

(* Variant: the retain step left out. *)
RetainNonZero_KeepAll(m) == m

(* retain(|_k, v| !v.amount.eq(&dec!(0))) *)
RetainNonZero(m) == [p \in {q \in DOMAIN m : m[q].amount # 0} |-> m[p]]

(* split_off(&key) with the returned half dropped: self keeps keys < key. *)
SplitOff(m, key) == [p \in {q \in DOMAIN m : q < key} |-> m[p]]

(* Variant: the retain step taken before the extend step. *)
ExtendAndKeep_RetainFirst(self, other, i) ==
    LET kept == Extend(RetainNonZero(self), other) IN
    IF Len0(kept) > i THEN SplitOff(kept, KeyAt(kept, i)) ELSE kept

ExtendAndKeep(self, other, i) ==
    LET kept == RetainNonZero(Extend(self, other)) IN
    IF Len0(kept) > i THEN SplitOff(kept, KeyAt(kept, i)) ELSE kept

----------------------------------------------------------------------------
(* impl Merge for Vec<Level> *)

Merge(self, other, tie) == SortUnstable(self \o other, tie)

MergeMap(self, other, tie) == Merge(self, Values(other), tie)

----------------------------------------------------------------------------
(* Exchanges::update, one operator per match arm *)

(* Variant: the incoming lists appended to the stored ones. *)
UpdateList_Append(book, t) ==
    [bids |-> book.bids \o t.bids, asks |-> book.asks \o t.asks]

UpdateList(book, t) == [bids |-> t.bids, asks |-> t.asks]

UpdateMap(book, t) ==
    [bids |-> ExtendAndKeep(book.bids, Collect(t.bids), Depth),
     asks |-> ExtendAndKeep(book.asks, Collect(t.asks), Depth)]

(* Variant: the Binance arm writes the Bitstamp book. *)
Update_BinanceIntoBitstamp(ex, t) ==
    IF t.exchange = Bitstamp
    THEN [ex EXCEPT !.bitstamp = UpdateList(ex.bitstamp, t)]
    ELSE IF t.exchange = Binance
    THEN [ex EXCEPT !.bitstamp = UpdateList(ex.binance, t)]
    ELSE IF t.exchange = Kraken
    THEN [ex EXCEPT !.kraken = UpdateMap(ex.kraken, t)]
    ELSE [ex EXCEPT !.coinbase = UpdateMap(ex.coinbase, t)]

(* Variant: the Kraken arm writes the Coinbase book as well. *)
Update_KrakenIntoCoinbase(ex, t) ==
    IF t.exchange = Bitstamp
    THEN [ex EXCEPT !.bitstamp = UpdateList(ex.bitstamp, t)]
    ELSE IF t.exchange = Binance
    THEN [ex EXCEPT !.binance = UpdateList(ex.binance, t)]
    ELSE IF t.exchange = Kraken
    THEN [ex EXCEPT !.kraken = UpdateMap(ex.kraken, t),
                    !.coinbase = UpdateMap(ex.coinbase, t)]
    ELSE [ex EXCEPT !.coinbase = UpdateMap(ex.coinbase, t)]

Update(ex, t) ==
    IF t.exchange = Bitstamp
    THEN [ex EXCEPT !.bitstamp = UpdateList(ex.bitstamp, t)]
    ELSE IF t.exchange = Binance
    THEN [ex EXCEPT !.binance = UpdateList(ex.binance, t)]
    ELSE IF t.exchange = Kraken
    THEN [ex EXCEPT !.kraken = UpdateMap(ex.kraken, t)]
    ELSE [ex EXCEPT !.coinbase = UpdateMap(ex.coinbase, t)]

(* Exchanges::to_tick *)

(* Variant: the last venue left out of the bid merge. *)
MergedBids_NoCoinbase(ex, tie) ==
    MergeMap(Merge(ex.bitstamp.bids, ex.binance.bids, tie), ex.kraken.bids, tie)

MergedBids(ex, tie) ==
    MergeMap(MergeMap(Merge(ex.bitstamp.bids, ex.binance.bids, tie),
                      ex.kraken.bids, tie),
             ex.coinbase.bids, tie)

MergedAsks(ex, tie) ==
    MergeMap(MergeMap(Merge(ex.bitstamp.asks, ex.binance.asks, tie),
                      ex.kraken.asks, tie),
             ex.coinbase.asks, tie)

(* Variant: the spread clamped at zero. *)
Spread_Clamped(bids, asks) ==
    IF Len(bids) > 0 /\ Len(asks) > 0 /\ asks[1].price > bids[1].price
    THEN asks[1].price - bids[1].price
    ELSE 0

Spread(bids, asks) ==
    IF Len(bids) > 0 /\ Len(asks) > 0
    THEN asks[1].price - bids[1].price
    ELSE 0

(* Variant: the merged sides published without take(10). *)
ToTick_NoTake(ex, tie) ==
    LET bids == Rev(MergedBids(ex, tie))
        asks == MergedAsks(ex, tie)
    IN OutTick(Spread(bids, asks), bids, asks)

ToTick(ex, tie) ==
    LET bids == Take(Rev(MergedBids(ex, tie)), Depth)
        asks == Take(MergedAsks(ex, tie), Depth)
    IN OutTick(Spread(bids, asks), bids, asks)

----------------------------------------------------------------------------
(* The InTicks the adapters hand to the ingress channel.  Every adapter    *)
(* tags the bids Side::Bid and the asks Side::Ask, stamps its own venue,   *)
(* and keeps at most Depth levels per side (ToLevels::to_levels); prices,  *)
(* amounts, order and repetitions are whatever the payload carries.        *)

Prices  == 1..MaxPrice
Amounts == 0..MaxAmount

(* A full side, best price first: bids Depth..1, asks 2..Depth+1. *)
SnapshotBids(e, a) == [i \in 1..Depth |-> Level(Bid, Depth + 1 - i, a, e)]
SnapshotAsks(e, a) == [i \in 1..Depth |-> Level(Ask, i + 1, a, e)]

ProbePrices  == {1, MaxPrice}
ProbeAmounts == {0, 1, MaxAmount}

TicksOf(e) ==
    (* a snapshot of both sides *)
       {InTick(e, SnapshotBids(e, 1), SnapshotAsks(e, 1))}
    (* one level on one side: insert, replace or delete *)
  \cup {InTick(e, <<Level(Bid, p, a, e)>>, <<>>) :
            p \in ProbePrices, a \in ProbeAmounts}
  \cup {InTick(e, <<>>, <<Level(Ask, p, a, e)>>) :
            p \in ProbePrices, a \in ProbeAmounts}
    (* the same price twice in one payload *)
  \cup {InTick(e, <<Level(Bid, 1, 0, e), Level(Bid, 1, 1, e)>>,
                  <<Level(Ask, 2, 1, e), Level(Ask, 2, 0, e)>>)}

----------------------------------------------------------------------------
(* The adapters (src/src/binance.rs, bitstamp.rs, kraken.rs, coinbase.rs): *)
(* parse turns one websocket message into Result<Option<InTick>, Error>.   *)
(* A text message is a JSON document; the model keeps of a document what   *)
(* serde looks at: whether it is well formed, its discriminator, and the   *)
(* depth entries it carries, in the order of the document.                 *)

(* The frames of tungstenite::Message that carry no text. *)
NonTextKinds == {"Binary", "Ping", "Pong", "Close", "Frame"}

(* The discriminators each adapter's Event knows that carry no depth: the  *)
(* variants of the `event` tag (Bitstamp, Kraken GeneralMessage) or `type` *)
(* tag (Coinbase).  Binance's Event is one struct without a tag.           *)
KnownTags(e) ==
    CASE e = Bitstamp -> {"bts:subscribe", "bts:unsubscribe",
                          "bts:subscription_succeeded",
                          "bts:unsubscription_succeeded", "bts:error"}
      [] e = Binance  -> {}
      [] e = Kraken   -> {"ping", "pong", "heartbeat", "systemStatus",
                          "subscribe", "unsubscribe", "subscriptionStatus",
                          "error"}
      [] e = Coinbase -> {"error", "subscribe", "unsubscribe",
                          "subscriptions", "heartbeat", "status", "ticker"}

(* A discriminator none of the Event enums has a variant for. *)
UnknownTag == "new_event"

(* One side of a depth payload: n entries of price and amount, in rising   *)
(* or in falling price order.                                              *)
SideEntries(n, up) ==
    [i \in 1..n |-> [price  |-> IF up THEN i ELSE n + 1 - i,
                     amount |-> i % (MaxAmount + 1)]]

PayloadSides == {SideEntries(n, up) : n \in 0..MaxPrice, up \in BOOLEAN}

(* Option<Vec<Level>> of a Kraken update payload. *)
NoSide == [some |-> FALSE, entries |-> <<>>]
SomeSide(entries) == [some |-> TRUE, entries |-> entries]

OptionSides ==
    {NoSide} \cup {SomeSide(SideEntries(n, TRUE)) : n \in {0, 1, MaxPrice}}

(* Coinbase l2update changes: each entry names its side. *)
Tagged(entries, side) ==
    [i \in 1..Len(entries) |-> [side   |-> side,
                                price  |-> entries[i].price,
                                amount |-> entries[i].amount]]

(* The documents *)
Malformed == [doc |-> "malformed"]
TagOnly(tag) == [doc |-> "event", tag |-> tag]
Book(bids, asks) == [doc |-> "book", bids |-> bids, asks |-> asks]
Updates(payloads) == [doc |-> "update", payloads |-> payloads]
Changes(changes) == [doc |-> "l2update", changes |-> changes]

(* The documents a venue's session can carry: text that is no document of  *)
(* the venue's format, events without depth (known or not), and the depth  *)
(* documents of the venue's format.                                        *)
Documents(e) ==
       {Malformed}
  \cup {TagOnly(tag) : tag \in KnownTags(e) \cup {UnknownTag}}
  \cup {Book(b, a) : b \in PayloadSides, a \in PayloadSides}
  \cup (IF e = Kraken
        THEN {Updates(<<[a |-> a1, b |-> b1]>>) :
                  a1 \in OptionSides, b1 \in OptionSides}
        \cup {Updates(<<[a |-> a1, b |-> b1], [a |-> a2, b |-> b2]>>) :
                  a1 \in OptionSides, b1 \in OptionSides,
                  a2 \in OptionSides, b2 \in OptionSides}
        ELSE {})
  \cup (IF e = Coinbase
        THEN {Changes(Tagged(b, "buy") \o Tagged(a, "sell")) :
                  b \in PayloadSides, a \in PayloadSides}
        \cup {Changes(Tagged(a, "sell") \o Tagged(b, "buy")) :
                  b \in PayloadSides, a \in PayloadSides}
        ELSE {})

Text(d) == [kind |-> "Text", text |-> d]

Messages(e) ==
    {[kind |-> k] : k \in NonTextKinds} \cup {Text(d) : d \in Documents(e)}

(* serde_json::from_str::<Event>: the Event, or the error.  A tagged enum  *)
(* without a catch-all variant fails on a tag it has no variant for, and   *)
(* so does an untagged enum none of whose variants matches.                *)
DecodeFails == [ok |-> FALSE]
DecodeOk(event) == [ok |-> TRUE, event |-> event]

Deserialize(e, d) ==
    CASE d.doc = "malformed" -> DecodeFails
      [] d.doc = "event" ->
             IF d.tag \in KnownTags(e) THEN DecodeOk(d) ELSE DecodeFails
      [] d.doc = "book" -> DecodeOk(d)
      [] d.doc = "update" ->
             IF e = Kraken THEN DecodeOk(d) ELSE DecodeFails
      [] d.doc = "l2update" ->
             IF e = Coinbase THEN DecodeOk(d) ELSE DecodeFails

(* Variant: the last `depth` entries are kept. *)
ToLevels_KeepLast(entries, side, depth, e) ==
    LET kept == IF Len(entries) > depth
                THEN SubSeq(entries, Len(entries) - depth + 1, Len(entries))
                ELSE entries
    IN  [i \in 1..Len(kept) |->
            Level(side, kept[i].price, kept[i].amount, e)]

(* ToLevels::to_levels with the adapter's to_level: split_at(depth).0 when *)
(* there are more than depth entries, each entry mapped in order.          *)
ToLevels(entries, side, depth, e) ==
    LET kept == IF Len(entries) > depth
                THEN SubSeq(entries, 1, depth)
                ELSE entries
    IN  [i \in 1..Len(kept) |->
            Level(side, kept[i].price, kept[i].amount, e)]

IsBuy(c) == c.side = "buy"
IsSell(c) == c.side = "sell"

(* Option<InTick> *)
None == [some |-> FALSE]
Some(t) == [some |-> TRUE, tick |-> t]

(* as_ref().map(|s| tick.side = s.to_levels(..)): the side is assigned     *)
(* when the option is Some and left as it was otherwise.                   *)
Assign(current, option, side, e) ==
    IF option.some THEN ToLevels(option.entries, side, Depth, e) ELSE current

(* Event::maybe_to_tick of each adapter. *)
MaybeToTick(e, event) ==
    CASE event.doc = "event" -> None
      [] event.doc = "book" ->
             Some(InTick(e, ToLevels(event.bids, Bid, Depth, e),
                            ToLevels(event.asks, Ask, Depth, e)))
      [] event.doc = "update" ->
             LET p == event.payloads
                 b1 == Assign(<<>>, p[1].b, Bid, e)
                 a1 == Assign(<<>>, p[1].a, Ask, e)
             IN  IF Len(p) = 1
                 THEN Some(InTick(e, b1, a1))
                 ELSE Some(InTick(e, Assign(b1, p[2].b, Bid, e),
                                     Assign(a1, p[2].a, Ask, e)))
      [] event.doc = "l2update" ->
             Some(InTick(e,
                 ToLevels(SelectSeq(event.changes, IsBuy), Bid, Depth, e),
                 ToLevels(SelectSeq(event.changes, IsSell), Ask, Depth, e)))

(* Result<Option<InTick>, Error> *)
Ok(option) == [ok |-> TRUE, value |-> option]
ErrBadData == [ok |-> FALSE, error |-> "BadData"]

(* Variant: a text that does not decode is passed over. *)
Parse_SkipUndecodable(e, msg) ==
    IF msg.kind \in NonTextKinds
    THEN Ok(None)
    ELSE LET r == Deserialize(e, msg.text)
         IN  IF r.ok THEN Ok(MaybeToTick(e, r.event)) ELSE Ok(None)

(* parse: no Event for a frame that is not text; for a text,               *)
(* `deserialize(x)?` and then maybe_to_tick.                               *)
Parse(e, msg) ==
    IF msg.kind \in NonTextKinds
    THEN Ok(None)
    ELSE LET r == Deserialize(e, msg.text)
         IN  IF r.ok THEN Ok(MaybeToTick(e, r.event)) ELSE ErrBadData

NoFrame == [exchange |-> "none", message |-> [kind |-> "none"]]
NotParsed == [ok |-> FALSE, error |-> "none"]

----------------------------------------------------------------------------
(* State machine *)

(* The flag settings run is called with: none set, or one venue off. *)
FlagSets == {{}} \cup {{e} : e \in Exchange}

(* The callers of the stream service in one behaviour. *)
Clients == {"c1", "c2"}

(* Exchanges::new and watch::channel(OutTick::new()) in Connector::new. *)
AggregatorInit ==
    /\ exchanges = ExchangesNew
    /\ prev_exchanges = ExchangesNew
    /\ in_tick = InTick("none", <<>>, <<>>)
    /\ out_tick = OutTickNew
    /\ nticks = 0
    /\ version = 0
    /\ sent = <<>>

(* Nobody holds the slot's lock, the ingress branch is at select!, and no  *)
(* caller has called yet.                                                  *)
ServiceInit ==
    /\ readers = {}
    /\ pub_pc = "select"
    /\ new_tick = OutTickNew
    /\ pc = [s \in Clients |-> "idle"]
    /\ seen = [s \in Clients |-> 0]
    /\ received = [s \in Clients |-> <<>>]

(* Connector::run has not connected yet; the flags are those run was      *)
(* called with.                                                            *)
SupervisorInit ==
    /\ sup = "connecting"
    /\ cause = "none"
    /\ result = "none"
    /\ no_venue \in FlagSets
    /\ arrived = [e \in Exchange |-> 0]
    /\ spawned = {}
    /\ ingress = <<>>
    /\ applied = [e \in Exchange |-> <<>>]
    /\ stdin = "open"
    /\ forwarded = <<>>
    /\ closing = {}
    /\ send_failed = FALSE

(* The supervisor in its loop with every venue enabled, as the aggregator  *)
(* and the stream service see it.                                          *)
SupervisorRunning ==
    /\ sup = "loop"
    /\ cause = "none"
    /\ result = "none"
    /\ no_venue = {}
    /\ arrived = [e \in Exchange |-> 0]
    /\ spawned = {}
    /\ ingress = <<>>
    /\ applied = [e \in Exchange |-> <<>>]
    /\ stdin = "open"
    /\ forwarded = <<>>
    /\ closing = {}
    /\ send_failed = FALSE

(* parse has not been called, and no session is being closed. *)
WireInit ==
    /\ frame = NoFrame
    /\ parsed = NotParsed
    /\ ws_pc = [e \in Exchange |-> "open"]
    /\ inbound = [e \in Exchange |-> 0]
    /\ stdin_q = <<>>

Init ==
    /\ AggregatorInit
    /\ ServiceInit
    /\ SupervisorRunning
    /\ WireInit

(* watch::Sender::send: store the value and advance the version. *)
Send(v) ==
    /\ out_tick' = v
    /\ version' = version + 1
    /\ sent' = Append(sent, v)

(* The ingress branch of Connector::run for Some(t): update the books,     *)
(* recompute the merged tick and send it into the watch channel.           *)
HandleInTick(t, tie) ==
    /\ nticks < MaxTicks
    /\ prev_exchanges' = exchanges
    /\ exchanges' = Update(exchanges, t)
    /\ in_tick' = t
    /\ out_tick' = ToTick(exchanges', tie)
    /\ nticks' = nticks + 1

BitstampTick ==
    \E t \in TicksOf(Bitstamp), tie \in BOOLEAN :
        /\ t.exchange = Bitstamp
        /\ HandleInTick(t, tie)
        /\ UNCHANGED <<slotvars, pubvars, clientvars, wirevars, supvars>>

BinanceTick ==
    \E t \in TicksOf(Binance), tie \in BOOLEAN :
        /\ t.exchange = Binance
        /\ HandleInTick(t, tie)
        /\ UNCHANGED <<slotvars, pubvars, clientvars, wirevars, supvars>>

KrakenTick ==
    \E t \in TicksOf(Kraken), tie \in BOOLEAN :
        /\ t.exchange = Kraken
        /\ HandleInTick(t, tie)
        /\ UNCHANGED <<slotvars, pubvars, clientvars, wirevars, supvars>>

CoinbaseTick ==
    \E t \in TicksOf(Coinbase), tie \in BOOLEAN :
        /\ t.exchange = Coinbase
        /\ HandleInTick(t, tie)
        /\ UNCHANGED <<slotvars, pubvars, clientvars, wirevars, supvars>>

Next ==
    \/ BitstampTick
    \/ BinanceTick
    \/ KrakenTick
    \/ CoinbaseTick

Spec == Init /\ [][Next]_vars

----------------------------------------------------------------------------
(* The stream service (src/src/grpc.rs) and the ingress branch as the      *)
(* service's callers see it.  The slot is                                  *)
(* Arc<RwLock<(watch::Sender<OutTick>, watch::Receiver<OutTick>)>>: the     *)
(* ingress branch takes the write guard to send, a caller takes the read   *)
(* guard to borrow the value (check) or to clone the stored Receiver       *)
(* (book_summary).  tokio's RwLock is fair: a queued writer holds back     *)
(* later readers.                                                          *)

(* The InTicks handled while callers are served. *)
StreamTicks ==
    {InTick(Bitstamp, <<Level(Bid, 1, 1, Bitstamp)>>, <<>>),
     InTick(Kraken, <<>>, <<Level(Ask, MaxPrice, 1, Kraken)>>)}

(* The version the Receiver stored in the slot has marked seen: the one    *)
(* watch::channel gave it, since nothing ever calls changed() or           *)
(* borrow_and_update() on it.                                              *)
StoredVersion == 0

(* Variant: the caller is handed a default OutTick instead of the slot's   *)
(* value.                                                                  *)
Borrow_Default == [ver |-> version, value |-> OutTickNew]

(* Receiver::borrow().clone(): the value the channel holds now, tagged     *)
(* with the channel's version at the read.                                 *)
Borrow == [ver |-> version, value |-> out_tick]

(* From<OutTick> for proto::Summary: every level becomes a proto::Level  *)
(* of venue name, price and amount (the side is not carried), the numbers  *)
(* as f64, which holds the integers of this model exactly.                 *)
ProtoLevel(l) ==
    [exchange |-> l.exchange, price |-> l.price, amount |-> l.amount]

SummaryFrom(t) ==
    [spread |-> t.spread,
     bids |-> [i \in 1..Len(t.bids) |-> ProtoLevel(t.bids[i])],
     asks |-> [i \in 1..Len(t.asks) |-> ProtoLevel(t.asks[i])]]

(* What a caller is given for a borrowed value: the Summary made of it,    *)
(* here with the version it was read at.                                   *)
Reply(b) == [ver |-> b.ver, value |-> SummaryFrom(b.value)]

(* The items a caller was given, cut to the last two. *)
Push(items, item) ==
    IF Len(items) < 2 THEN Append(items, item) ELSE <<items[2], item>>

(* The value the channel held at version v. *)
ValueAt(v) == IF v = 0 THEN OutTickNew ELSE sent[v]

(* Variant: the merged tick is computed from the books as they were before *)
(* the update.                                                             *)
PubTake_StaleTick(t, tie) ==
    /\ sup = "loop"
    /\ pub_pc = "select"
    /\ nticks < MaxTicks
    /\ prev_exchanges' = exchanges
    /\ exchanges' = Update(exchanges, t)
    /\ in_tick' = t
    /\ new_tick' = ToTick(exchanges, tie)
    /\ nticks' = nticks + 1
    /\ pub_pc' = "write"
    /\ UNCHANGED <<wirevars, supvars, out_tick, slotvars, clientvars>>

(* The ingress branch of the loop up to `self.out_ticks.write().await`. *)
PubTake(t, tie) ==
    /\ sup = "loop"
    /\ pub_pc = "select"
    /\ nticks < MaxTicks
    /\ prev_exchanges' = exchanges
    /\ exchanges' = Update(exchanges, t)
    /\ in_tick' = t
    /\ new_tick' = ToTick(exchanges', tie)
    /\ nticks' = nticks + 1
    /\ pub_pc' = "write"
    /\ UNCHANGED <<wirevars, supvars, out_tick, slotvars, clientvars>>

(* RwLock::write is granted once no read guard is out. *)
PubLock ==
    /\ pub_pc = "write"
    /\ readers = {}
    /\ pub_pc' = "send"
    /\ UNCHANGED <<wirevars, supvars, aggvars, slotvars, new_tick, clientvars>>

(* Variant: the value is stored without advancing the version. *)
PubSend_NoNotify ==
    /\ pub_pc = "send"
    /\ out_tick' = new_tick
    /\ sent' = Append(sent, new_tick)
    /\ pub_pc' = "select"
    /\ UNCHANGED <<wirevars, supvars, exchanges, prev_exchanges, in_tick,
                   nticks, version, readers, new_tick, clientvars>>

(* writer.0.send(out_tick), then the write guard is dropped at the end of  *)
(* the block.                                                              *)
PubSend ==
    /\ pub_pc = "send"
    /\ Send(new_tick)
    /\ pub_pc' = "select"
    /\ UNCHANGED <<wirevars, supvars, exchanges, prev_exchanges, in_tick,
                   nticks, readers, new_tick, clientvars>>

(* RwLock::read is granted when no writer holds the lock or waits for it. *)
ReadGranted == pub_pc = "select"

(* book_summary: `self.out_ticks.read().await` is granted. *)
SubCall(s) ==
    /\ pc[s] = "idle"
    /\ ReadGranted
    /\ readers' = readers \cup {s}
    /\ pc' = [pc EXCEPT ![s] = "cloning"]
    /\ UNCHANGED <<wirevars, supvars, aggvars, version, sent, pubvars, seen,
                   received>>

(* Variant: the read guard is kept for the life of the stream. *)
SubClone_KeepGuard(s) ==
    /\ pc[s] = "cloning"
    /\ seen' = [seen EXCEPT ![s] = StoredVersion]
    /\ pc' = [pc EXCEPT ![s] = "first"]
    /\ UNCHANGED <<wirevars, supvars, aggvars, slotvars, pubvars, received>>

(* book_summary: `.1.clone()` copies the stored Receiver with its seen     *)
(* version, and the read guard, a temporary, is dropped.                   *)
SubClone(s) ==
    /\ pc[s] = "cloning"
    /\ seen' = [seen EXCEPT ![s] = StoredVersion]
    /\ readers' = readers \ {s}
    /\ pc' = [pc EXCEPT ![s] = "first"]
    /\ UNCHANGED <<wirevars, supvars, aggvars, version, sent, pubvars,
                   received>>

(* Variant: the first item is held back until the channel changes. *)
SubFirst_AfterChange(s) ==
    /\ pc[s] = "first"
    /\ version # seen[s]
    /\ received' = [received EXCEPT ![s] = Push(@, Reply(Borrow))]
    /\ pc' = [pc EXCEPT ![s] = "wait"]
    /\ UNCHANGED <<wirevars, supvars, aggvars, slotvars, pubvars, seen>>

(* The stream's first item: borrow().clone() of the cloned Receiver,       *)
(* yielded as a Summary; borrow() does not mark the version seen.          *)
SubFirst(s) ==
    /\ pc[s] = "first"
    /\ received' = [received EXCEPT ![s] = Push(@, Reply(Borrow))]
    /\ pc' = [pc EXCEPT ![s] = "wait"]
    /\ UNCHANGED <<wirevars, supvars, aggvars, slotvars, pubvars, seen>>

(* Variant: one Receiver shared by all streams, so that a change one       *)
(* stream takes is marked seen for all.                                    *)
SubChanged_SharedReceiver(s) ==
    /\ pc[s] = "wait"
    /\ version # seen[s]
    /\ seen' = [t \in Clients |-> version]
    /\ pc' = [pc EXCEPT ![s] = "woken"]
    /\ UNCHANGED <<wirevars, supvars, aggvars, slotvars, pubvars, received>>

(* `rx_out_ticks.changed().await` returns Ok: the channel's version is not *)
(* the one this Receiver has seen, and is marked seen now.                 *)
SubChanged(s) ==
    /\ pc[s] = "wait"
    /\ version # seen[s]
    /\ seen' = [seen EXCEPT ![s] = version]
    /\ pc' = [pc EXCEPT ![s] = "woken"]
    /\ UNCHANGED <<wirevars, supvars, aggvars, slotvars, pubvars, received>>

(* Variant: the value kept from the stored Receiver's time is yielded. *)
SubYield_Stored(s) ==
    /\ pc[s] = "woken"
    /\ received' = [received EXCEPT ![s] =
                        Push(@, Reply([ver |-> StoredVersion,
                                       value |-> ValueAt(StoredVersion)]))]
    /\ pc' = [pc EXCEPT ![s] = "wait"]
    /\ UNCHANGED <<wirevars, supvars, aggvars, slotvars, pubvars, seen>>

(* The loop body: borrow().clone() and yield. *)
SubYield(s) ==
    /\ pc[s] = "woken"
    /\ received' = [received EXCEPT ![s] = Push(@, Reply(Borrow))]
    /\ pc' = [pc EXCEPT ![s] = "wait"]
    /\ UNCHANGED <<wirevars, supvars, aggvars, slotvars, pubvars, seen>>

(* The client goes away and the stream is dropped. *)
SubDisconnect(s) ==
    /\ pc[s] \in {"first", "wait", "woken"}
    /\ pc' = [pc EXCEPT ![s] = "gone"]
    /\ UNCHANGED <<wirevars, supvars, aggvars, slotvars, pubvars, seen,
                   received>>

(* check -> out_tick(): `self.out_ticks.read().await` is granted. *)
ChkCall(s) ==
    /\ pc[s] = "idle"
    /\ ReadGranted
    /\ readers' = readers \cup {s}
    /\ pc' = [pc EXCEPT ![s] = "reading"]
    /\ UNCHANGED <<wirevars, supvars, aggvars, version, sent, pubvars, seen,
                   received>>

(* out_tick(): reader.1.borrow().clone(), the guard dropped on return, and *)
(* the value sent back as the reply.                                       *)
ChkRead(s) ==
    /\ pc[s] = "reading"
    /\ received' = [received EXCEPT ![s] = Push(@, Reply(Borrow))]
    /\ readers' = readers \ {s}
    /\ pc' = [pc EXCEPT ![s] = "replied"]
    /\ UNCHANGED <<wirevars, supvars, aggvars, version, sent, pubvars, seen>>

(* A step of the stream a caller reads. *)
StreamStep(s) == SubFirst(s) \/ SubChanged(s) \/ SubYield(s)

(* Any step of caller s. *)
ClientStep(s) ==
    \/ SubCall(s) \/ SubClone(s) \/ StreamStep(s) \/ SubDisconnect(s)
    \/ ChkCall(s) \/ ChkRead(s)

NextStream ==
    \/ \E t \in StreamTicks, tie \in BOOLEAN : PubTake(t, tie)
    \/ PubLock
    \/ PubSend
    \/ \E s \in Clients : SubCall(s)
    \/ \E s \in Clients : SubClone(s)
    \/ \E s \in Clients : SubFirst(s)
    \/ \E s \in Clients : SubChanged(s)
    \/ \E s \in Clients : SubYield(s)
    \/ \E s \in Clients : SubDisconnect(s)
    \/ \E s \in Clients : ChkCall(s)
    \/ \E s \in Clients : ChkRead(s)

SpecStream == Init /\ [][NextStream]_vars

(* Variant: the slot keeps the Sender only. *)
StoredReceivers_None == {}

(* The Receiver that watch::channel returned, kept in the slot next to the *)
(* Sender for as long as the slot lives.                                   *)
StoredReceivers == {"stored"}

(* The Receivers of the channel: the stored one and the clone of every     *)
(* open stream.                                                            *)
Receivers ==
    StoredReceivers \cup {s \in Clients : pc[s] \in {"first", "wait", "woken"}}

(* The owners of the slot's Arc: the Connector until Connector::run is     *)
(* over, and the OrderBookService that run moved into the server task.     *)
Holders ==
    {"service"} \cup (IF sup \in {"returned", "panicked"} THEN {}
                                                          ELSE {"connector"})

(* The Sender lives in the slot, so it is dropped with the last owner. *)
SenderDropped == Holders = {}

(* Receiver::changed: Ok when the version is not the one seen, Err when    *)
(* it is and the Sender has been dropped, and pending otherwise.           *)
Changed(s) ==
    IF version # seen[s] THEN "Ok"
    ELSE IF SenderDropped THEN "Err" ELSE "Pending"

(* What the runtime guarantees: a task that holds a guard of the slot's    *)
(* lock runs on to the release without awaiting anything, and the fair     *)
(* lock grants the queued writer once the read guards are back.  Nothing   *)
(* is assumed about how fast a client reads its stream.                    *)
FairSpecStream ==
    /\ SpecStream
    /\ WF_vars(PubLock)
    /\ WF_vars(PubSend)
    /\ \A s \in Clients : WF_vars(SubClone(s)) /\ WF_vars(ChkRead(s))

----------------------------------------------------------------------------
(* The supervisor: Connector::run (src/src/orderly.rs).  It connects the   *)
(* four sessions, then loops on select! over the four sessions, standard   *)
(* input and the ingress channel, and after the loop closes the sessions   *)
(* and returns.  No caller of the stream service takes part here, so the   *)
(* write guard is granted at once and the ingress branch is one step.      *)

MaxLines == 1   \* ordinary lines read from standard input

(* The InTicks a venue's frames decode to: two that differ, so that the    *)
(* order they are applied in shows in the book.                            *)
RunTicks(e) ==
    {InTick(e, <<Level(Bid, 1, 1, e)>>, <<>>),
     InTick(e, <<Level(Bid, 1, MaxAmount, e)>>, <<>>)}

(* The number of InTicks decoded so far. *)
Decoded ==
    arrived[Bitstamp] + arrived[Binance] + arrived[Kraken] + arrived[Coinbase]

(* The four connects succeed. *)
Connected ==
    /\ sup = "connecting"
    /\ sup' = "loop"
    /\ UNCHANGED <<aggvars, slotvars, pubvars, clientvars, wirevars, cause,
                   result,
                   no_venue, arrived, spawned, ingress, applied, stdin,
                   forwarded, closing, send_failed>>

(* One of the connects fails and `?` returns its error. *)
ConnectFails ==
    /\ sup = "connecting"
    /\ sup' = "returned"
    /\ cause' = "connect_failed"
    /\ result' = "Err"
    /\ UNCHANGED <<aggvars, slotvars, pubvars, clientvars, wirevars,
                   no_venue, arrived,
                   spawned, ingress, applied, stdin, forwarded, closing,
                   send_failed>>

(* `break`: the loop is left, the close of the sessions comes next. *)
Break(why) ==
    /\ sup' = "closing"
    /\ cause' = why
    /\ UNCHANGED <<aggvars, slotvars, pubvars, clientvars, wirevars, result,
                   no_venue,
                   arrived, spawned, ingress, applied, stdin, forwarded,
                   closing, send_failed>>

(* Variant: an InTick of the venue is applied before the loop is left. *)
FrameFails_AppliesFirst(e, kind) ==
    /\ sup = "loop"
    /\ kind = "undecodable" => e \notin no_venue
    /\ \E t \in RunTicks(e), tie \in BOOLEAN : HandleInTick(t, tie)
    /\ sup' = "closing"
    /\ cause' = "adapter_error"
    /\ UNCHANGED <<slotvars, pubvars, clientvars, wirevars, result, no_venue,
                   arrived, spawned, ingress, applied, stdin, forwarded,
                   closing, send_failed>>

(* A session branch whose frame makes handle or parse fail: a transport    *)
(* error or the end of the stream (handle), or, when the venue's flag is   *)
(* not set, a message that does not decode (parse).                        *)
FrameFails(e, kind) ==
    /\ sup = "loop"
    /\ kind = "undecodable" => e \notin no_venue
    /\ Break("adapter_error")

(* A session branch whose message is not decoded (the venue's flag is set) *)
(* or decodes to no tick: nothing happens.                                 *)
FramePasses(e) ==
    /\ sup = "loop"
    /\ UNCHANGED vars

(* Variant: the venue's flag is not looked at. *)
FrameTick_FlagIgnored(e, t) ==
    /\ sup = "loop"
    /\ Decoded < MaxTicks
    /\ arrived' = [arrived EXCEPT ![e] = @ + 1]
    /\ spawned' = spawned \cup
                      {[exchange |-> e, seq |-> arrived[e] + 1, tick |-> t]}
    /\ UNCHANGED <<aggvars, slotvars, pubvars, clientvars, wirevars, sup,
                   cause, result, no_venue, ingress, applied, stdin,
                   forwarded, closing, send_failed>>

(* A session branch whose message decodes to an InTick: parse_and_send     *)
(* spawns a task that will enqueue it.                                     *)
FrameTick(e, t) ==
    /\ sup = "loop"
    /\ e \notin no_venue
    /\ Decoded < MaxTicks
    /\ arrived' = [arrived EXCEPT ![e] = @ + 1]
    /\ spawned' = spawned \cup
                      {[exchange |-> e, seq |-> arrived[e] + 1, tick |-> t]}
    /\ UNCHANGED <<aggvars, slotvars, pubvars, clientvars, wirevars, sup, cause,
                   result, no_venue, ingress, applied, stdin, forwarded,
                   closing, send_failed>>

(* Variant: the task ends without sending its tick. *)
Enqueue_TickLost(task) ==
    /\ task \in spawned
    /\ sup # "returned"
    /\ spawned' = spawned \ {task}
    /\ UNCHANGED <<aggvars, slotvars, pubvars, clientvars, wirevars, sup, cause,
                   result, no_venue, arrived, ingress, applied, stdin,
                   forwarded, closing, send_failed>>

(* A spawned task runs: tx.unbounded_send(tick).  The tasks of a           *)
(* multi-threaded runtime run in any order.  The receiver lives until      *)
(* Connector::run returns.                                                 *)
Enqueue(task) ==
    /\ task \in spawned
    /\ sup # "returned"
    /\ spawned' = spawned \ {task}
    /\ ingress' = Append(ingress, task)
    /\ UNCHANGED <<aggvars, slotvars, pubvars, clientvars, wirevars, sup, cause,
                   result, no_venue, arrived, applied, stdin, forwarded,
                   closing, send_failed>>

(* A spawned task runs after Connector::run returned and dropped the       *)
(* receiver: unbounded_send returns Err and expect panics in the task.     *)
EnqueueFails(task) ==
    /\ task \in spawned
    /\ sup = "returned"
    /\ spawned' = spawned \ {task}
    /\ send_failed' = TRUE
    /\ UNCHANGED <<aggvars, slotvars, pubvars, clientvars, wirevars, sup, cause,
                   result, no_venue, arrived, ingress, applied, stdin,
                   forwarded, closing>>

(* The ingress branch: the head of the channel is applied and published.  *)
(* The channel's version and the record of the values sent are kept for    *)
(* the callers of the stream service only, and there are none here.        *)
Drain(tie) ==
    /\ sup = "loop"
    /\ ingress # <<>>
    /\ HandleInTick(Head(ingress).tick, tie)
    /\ ingress' = Tail(ingress)
    /\ applied' = [applied EXCEPT ![Head(ingress).exchange] =
                       Append(@, Head(ingress).seq)]
    /\ UNCHANGED <<slotvars, pubvars, clientvars, wirevars, sup, cause, result,
                   no_venue, arrived, spawned, stdin, forwarded, closing,
                   send_failed>>

(* The stdin branch for a line other than /exit: it is sent to Coinbase. *)
StdinLine ==
    /\ sup = "loop"
    /\ stdin = "open"
    /\ Len(forwarded) < MaxLines
    /\ forwarded' = Append(forwarded, "line")
    /\ UNCHANGED <<aggvars, slotvars, pubvars, clientvars, wirevars, sup, cause,
                   result, no_venue, arrived, spawned, ingress, applied,
                   stdin, closing, send_failed>>

(* The stdin branch for the line /exit: it is sent to Coinbase like any    *)
(* line; the stdin task has left its loop and dropped the sender.          *)
StdinExit ==
    /\ sup = "loop"
    /\ stdin = "open"
    /\ forwarded' = Append(forwarded, "/exit")
    /\ stdin' = "closed"
    /\ UNCHANGED <<aggvars, slotvars, pubvars, clientvars, wirevars, sup, cause,
                   result, no_venue, arrived, spawned, ingress, applied,
                   closing, send_failed>>

(* The stdin branch when recv() returns None. *)
StdinClosed ==
    /\ sup = "loop"
    /\ stdin = "closed"
    /\ Break("stdin_closed")

(* Variant: only the session whose frame failed would be closed; here the  *)
(* first one.                                                              *)
CloseAll_OnlyOne ==
    /\ sup = "closing"
    /\ closing' = {Bitstamp}
    /\ sup' = "returned"
    /\ result' = "Ok"
    /\ UNCHANGED <<aggvars, slotvars, pubvars, clientvars, wirevars, cause,
                   no_venue,
                   arrived, spawned, ingress, applied, stdin, forwarded,
                   send_failed>>

(* After the loop: join! of websocket::close on the four sessions, then    *)
(* Ok(()) whatever ended the loop.                                         *)
CloseAll ==
    /\ sup = "closing"
    /\ closing' = Exchange
    /\ sup' = "returned"
    /\ result' = "Ok"
    /\ UNCHANGED <<aggvars, slotvars, pubvars, clientvars, wirevars, cause,
                   no_venue,
                   arrived, spawned, ingress, applied, stdin, forwarded,
                   send_failed>>

FailureKinds == {"transport_error", "end", "undecodable"}

NextRun ==
    \/ Connected
    \/ ConnectFails
    \/ \E e \in Exchange, kind \in FailureKinds : FrameFails(e, kind)
    \/ \E e \in Exchange : FramePasses(e)
    \/ \E e \in Exchange : \E t \in RunTicks(e) : FrameTick(e, t)
    \/ \E task \in spawned : Enqueue(task)
    \/ \E task \in spawned : EnqueueFails(task)
    \/ \E tie \in BOOLEAN : Drain(tie)
    \/ StdinLine
    \/ StdinExit
    \/ StdinClosed
    \/ CloseAll

InitRun ==
    /\ AggregatorInit
    /\ ServiceInit
    /\ SupervisorInit
    /\ WireInit

SpecRun == InitRun /\ [][NextRun]_vars

(* After `break` nothing is awaited before the join! of the closes. *)
FairSpecRun == SpecRun /\ WF_vars(CloseAll)

(* A spawned task sends its tick. *)
EnqueueSome == \E task \in spawned : Enqueue(task)

(* The ingress branch is taken. *)
DrainSome == \E tie \in BOOLEAN : Drain(tie)

(* The ingress branch is ready: what ENABLED <<DrainSome>>_vars comes to. *)
DrainReady == sup = "loop" /\ ingress # <<>> /\ nticks < MaxTicks

(* What the runtime guarantees while the loop runs: spawned tasks are run  *)
(* (finitely many are spawned here, so none is overtaken for ever), and    *)
(* select! polls its branches in random order, so a branch that stays      *)
(* ready (the ingress channel holding a tick) is taken: weak fairness of   *)
(* DrainSome, written out with its enabling condition.  Nothing is assumed *)
(* about the sessions or standard input.                                   *)
FairSpecIngress ==
    /\ SpecRun
    /\ WF_vars(EnqueueSome)
    /\ ([]<>(~DrainReady) \/ []<><<DrainSome>>_vars)

(* A session branch fails while callers are served: the loop is left from  *)
(* select!, not from inside the ingress branch.                            *)
ServeFails(e, kind) ==
    /\ pub_pc = "select"
    /\ FrameFails(e, kind)

NextServe ==
    \/ NextStream
    \/ \E e \in Exchange, kind \in FailureKinds : ServeFails(e, kind)
    \/ CloseAll

(* The stream service with a supervisor that can leave its loop. *)
SpecServe == Init /\ [][NextServe]_vars

----------------------------------------------------------------------------
(* Standard input (src/src/stdin.rs and the stdin branch of select!).      *)
(* stdin::rx spawns a task that loops on read_line and sends each line,    *)
(* trimmed, on a bounded channel; it leaves its loop after sending /exit   *)
(* and nowhere else.  At end of input read_line returns Ok(0) and leaves   *)
(* the buffer empty: no line was read, and the empty string is sent.  The  *)
(* stdin branch of the supervisor sends what it receives to Coinbase as a  *)
(* text frame and breaks when recv() returns None.                         *)

(* Program constant: mpsc::channel::<String>(10). *)
StdinCapacity == 10

MaxEmpty == 2   \* reads at end of input in one behaviour

(* What the task sends after a read that found the end of input. *)
NoLine == ""

(* The lines read so far: every line sent is on the channel or forwarded. *)
LinesRead ==
    Cardinality({i \in 1..Len(forwarded) : forwarded[i] # NoLine})
        + Cardinality({i \in 1..Len(stdin_q) : stdin_q[i] # NoLine})

(* The reads that found the end of input so far. *)
EmptyReads == Len(forwarded) + Len(stdin_q) - LinesRead

(* tx_stdin.send(..).await returns Ok: the channel has room and the        *)
(* receiver, a local of Connector::run, is alive.                          *)
CanSend ==
    /\ sup \in {"loop", "closing"}
    /\ Len(stdin_q) < StdinCapacity

(* The task reads a line other than /exit and sends it. *)
ReadLine ==
    /\ stdin = "open"
    /\ CanSend
    /\ LinesRead < MaxLines
    /\ stdin_q' = Append(stdin_q, "line")
    /\ UNCHANGED <<aggvars, slotvars, pubvars, clientvars, supvars, frame,
                   parsed, ws_pc, inbound>>

(* The task reads the line /exit, sends it and leaves its loop: the sender *)
(* is dropped.                                                             *)
ReadExit ==
    /\ stdin = "open"
    /\ CanSend
    /\ stdin_q' = Append(stdin_q, "/exit")
    /\ stdin' = "closed"
    /\ UNCHANGED <<aggvars, slotvars, pubvars, clientvars, frame, parsed,
                   ws_pc, inbound, sup, cause, result, no_venue, arrived,
                   spawned, ingress, applied, forwarded, closing,
                   send_failed>>

(* The input has ended: read_line returns Ok(0), the empty string is sent  *)
(* and the task loops on.                                                  *)
ReadEnd ==
    /\ stdin \in {"open", "eof"}
    /\ CanSend
    /\ EmptyReads < MaxEmpty
    /\ stdin_q' = Append(stdin_q, NoLine)
    /\ stdin' = "eof"
    /\ UNCHANGED <<aggvars, slotvars, pubvars, clientvars, frame, parsed,
                   ws_pc, inbound, sup, cause, result, no_venue, arrived,
                   spawned, ingress, applied, forwarded, closing,
                   send_failed>>

(* The task sends after Connector::run returned: send returns Err and      *)
(* unwrap panics in the task.                                              *)
SendPanics ==
    /\ stdin \in {"open", "eof"}
    /\ sup = "returned"
    /\ stdin' = "panicked"
    /\ UNCHANGED <<aggvars, slotvars, pubvars, clientvars, wirevars, sup,
                   cause, result, no_venue, arrived, spawned, ingress,
                   applied, forwarded, closing, send_failed>>

(* The stdin branch, Some(msg): the message is sent to Coinbase as a text  *)
(* frame, whatever it is.                                                  *)
Forward ==
    /\ sup = "loop"
    /\ stdin_q # <<>>
    /\ forwarded' = Append(forwarded, Head(stdin_q))
    /\ stdin_q' = Tail(stdin_q)
    /\ UNCHANGED <<aggvars, slotvars, pubvars, clientvars, frame, parsed,
                   ws_pc, inbound, sup, cause, result, no_venue, arrived,
                   spawned, ingress, applied, stdin, closing, send_failed>>

(* The stdin branch, None: the channel is empty and the sender dropped. *)
RecvNone ==
    /\ sup = "loop"
    /\ stdin_q = <<>>
    /\ stdin = "closed"
    /\ Break("stdin_closed")

NextStdin ==
    \/ Connected
    \/ ReadLine
    \/ ReadExit
    \/ ReadEnd
    \/ SendPanics
    \/ Forward
    \/ RecvNone
    \/ \E e \in Exchange, kind \in FailureKinds : FrameFails(e, kind)
    \/ CloseAll

(* Connector::run with the standard-input task and its channel; the venue  *)
(* sessions only fail or stay silent.                                      *)
SpecStdin == InitRun /\ [][NextStdin]_vars

----------------------------------------------------------------------------
(* parse as a function: a venue and a message are drawn, and parse is      *)
(* applied to them.                                                        *)

FramesOf(e) == {[exchange |-> e, message |-> m] : m \in Messages(e)}

Frames == UNION {FramesOf(e) : e \in Exchange}

InitParse ==
    /\ AggregatorInit
    /\ ServiceInit
    /\ SupervisorRunning
    /\ frame \in Frames
    /\ parsed = NotParsed
    /\ ws_pc = [e \in Exchange |-> "open"]
    /\ inbound = [e \in Exchange |-> 0]
    /\ stdin_q = <<>>

ApplyParse ==
    /\ parsed = NotParsed
    /\ parsed' = Parse(frame.exchange, frame.message)
    /\ UNCHANGED <<aggvars, slotvars, pubvars, clientvars, supvars, frame,
                   ws_pc, inbound, stdin_q>>

NextParse == ApplyParse

SpecParse == InitParse /\ [][NextParse]_vars

----------------------------------------------------------------------------
(* After the loop: join!(websocket::close(..) x 4) (src/src/websocket.rs). *)
(* Each close is `send(Message::Close(None))`, one `next()`, an assert     *)
(* that a second `next()` is None, and `close(None)`.  What a session's    *)
(* stream yields after the Close frame was sent is the session's business  *)
(* (the peer's Close reply, frames passed on before it, an error, or       *)
(* nothing); inbound counts the items it yields before it ends.  The four  *)
(* closes are futures of one join!, so their steps interleave.             *)

MaxPending == 2   \* items a session's stream yields before it ends

(* The loop was left with `break`; each session has its items to yield. *)
InitClose ==
    /\ AggregatorInit
    /\ ServiceInit
    /\ sup = "closing"
    /\ cause \in {"adapter_error", "stdin_closed"}
    /\ result = "none"
    /\ no_venue = {}
    /\ arrived = [e \in Exchange |-> 0]
    /\ spawned = {}
    /\ ingress = <<>>
    /\ applied = [e \in Exchange |-> <<>>]
    /\ stdin = "open"
    /\ forwarded = <<>>
    /\ closing = {}
    /\ send_failed = FALSE
    /\ frame = NoFrame
    /\ parsed = NotParsed
    /\ ws_pc = [e \in Exchange |-> "open"]
    /\ inbound \in [Exchange -> 0..MaxPending]
    /\ stdin_q = <<>>

(* StreamExt::next: the next item is taken, or the stream has ended. *)
StreamNext(n) == IF n > 0 THEN n - 1 ELSE 0

(* `let _ = ws_stream.send(Message::Close(None)).await` *)
CloseSend(e) ==
    /\ sup = "closing"
    /\ ws_pc[e] = "open"
    /\ ws_pc' = [ws_pc EXCEPT ![e] = "sent"]
    /\ closing' = closing \cup {e}
    /\ UNCHANGED <<aggvars, slotvars, pubvars, clientvars, sup, cause,
                   result, no_venue, arrived, spawned, ingress, applied,
                   stdin, forwarded, send_failed, frame, parsed, inbound,
                   stdin_q>>

(* `let close = ws_stream.next().await`, logged. *)
CloseNext(e) ==
    /\ sup = "closing"
    /\ ws_pc[e] = "sent"
    /\ inbound' = [inbound EXCEPT ![e] = StreamNext(@)]
    /\ ws_pc' = [ws_pc EXCEPT ![e] = "read"]
    /\ UNCHANGED <<aggvars, slotvars, pubvars, clientvars, supvars, frame,
                   parsed, stdin_q>>

(* `assert!(ws_stream.next().await.is_none())` holds, and                  *)
(* `let _ = ws_stream.close(None).await`.                                  *)
CloseDone(e) ==
    /\ sup = "closing"
    /\ ws_pc[e] = "read"
    /\ inbound[e] = 0
    /\ ws_pc' = [ws_pc EXCEPT ![e] = "closed"]
    /\ UNCHANGED <<aggvars, slotvars, pubvars, clientvars, supvars, frame,
                   parsed, inbound, stdin_q>>

(* The second `next()` yields an item: the assert panics, and the panic    *)
(* unwinds join! and Connector::run.                                       *)
ClosePanics(e) ==
    /\ sup = "closing"
    /\ ws_pc[e] = "read"
    /\ inbound[e] > 0
    /\ inbound' = [inbound EXCEPT ![e] = StreamNext(@)]
    /\ ws_pc' = [ws_pc EXCEPT ![e] = "panicked"]
    /\ sup' = "panicked"
    /\ UNCHANGED <<aggvars, slotvars, pubvars, clientvars, cause, result,
                   no_venue, arrived, spawned, ingress, applied, stdin,
                   forwarded, closing, send_failed, frame, parsed, stdin_q>>

(* join! is ready once the four closes are, and run returns Ok(()). *)
JoinDone ==
    /\ sup = "closing"
    /\ \A e \in Exchange : ws_pc[e] = "closed"
    /\ sup' = "returned"
    /\ result' = "Ok"
    /\ UNCHANGED <<aggvars, slotvars, pubvars, clientvars, cause, no_venue,
                   arrived, spawned, ingress, applied, stdin, forwarded,
                   closing, send_failed, wirevars>>

NextClose ==
    \/ \E e \in Exchange : CloseSend(e)
    \/ \E e \in Exchange : CloseNext(e)
    \/ \E e \in Exchange : CloseDone(e)
    \/ \E e \in Exchange : ClosePanics(e)
    \/ JoinDone

SpecClose == InitClose /\ [][NextClose]_vars

----------------------------------------------------------------------------
(* Vocabulary of the properties *)

DeltaVenues == {Kraken, Coinbase}
ListVenues  == {Bitstamp, Binance}

(* The stored levels of one venue on one side, as a sequence. *)
Stored(ex, e, side) ==
    LET book == ex[e]
        held == IF side = Bid THEN book.bids ELSE book.asks
    IN IF e \in DeltaVenues THEN Values(held) ELSE held

(* The map a delta venue keeps for one side. *)
MapOf(ex, e, side) == IF side = Bid THEN ex[e].bids ELSE ex[e].asks

AllStored(ex, side) ==
    Stored(ex, Bitstamp, side) \o Stored(ex, Binance, side)
        \o Stored(ex, Kraken, side) \o Stored(ex, Coinbase, side)

SideOf(t, side) == IF side = Bid THEN t.bids ELSE t.asks

Count(s, l) == Cardinality({i \in 1..Len(s) : s[i] = l})

RangeOf(s) == {s[i] : i \in 1..Len(s)}

MinOf(S) == CHOOSE x \in S : \A y \in S : x <= y
MaxOf(S) == CHOOSE x \in S : \A y \in S : x >= y

PricesOf(s) == {s[i].price : i \in 1..Len(s)}

(* The level that comes last at price p in a side of a tick. *)
LastAt(levels, p) ==
    levels[MaxOf({i \in 1..Len(levels) : levels[i].price = p})]

(* An InTick has been handled (the books, in_tick and out_tick belong to   *)
(* one pass of the ingress branch).                                        *)
Handled == nticks > 0

----------------------------------------------------------------------------
(* C1: the published OutTick has at most 10 bids and at most 10 asks. *)
C1_DepthCap ==
    /\ Len(out_tick.bids) <= 10
    /\ Len(out_tick.asks) <= 10

(* More than 10 bids and more than 10 asks are stored and 10 of each are   *)
(* published.                                                              *)
C1_Witness ==
    /\ Len(AllStored(exchanges, Bid)) > 10
    /\ Len(AllStored(exchanges, Ask)) > 10
    /\ Len(out_tick.bids) = 10
    /\ Len(out_tick.asks) = 10

(* C2: published bids are ordered by non-increasing price and, at equal    *)
(* price, by non-increasing amount.                                        *)
C2_BidsOrdered ==
    \A i \in 1..(Len(out_tick.bids) - 1) :
        LET a == out_tick.bids[i]
            b == out_tick.bids[i + 1]
        IN \/ a.price > b.price
           \/ a.price = b.price /\ a.amount >= b.amount

(* Two venues bid the same price with different amounts, both published. *)
C2_Witness ==
    \E i \in 1..(Len(out_tick.bids) - 1) :
        /\ out_tick.bids[i].price = out_tick.bids[i + 1].price
        /\ out_tick.bids[i].amount > out_tick.bids[i + 1].amount
        /\ out_tick.bids[i].exchange # out_tick.bids[i + 1].exchange

(* C3: published asks are ordered by non-decreasing price and, at equal    *)
(* price, by non-increasing amount.                                        *)
C3_AsksOrdered ==
    \A i \in 1..(Len(out_tick.asks) - 1) :
        LET a == out_tick.asks[i]
            b == out_tick.asks[i + 1]
        IN \/ a.price < b.price
           \/ a.price = b.price /\ a.amount >= b.amount

(* Two venues ask the same price with different amounts, both published. *)
C3_Witness ==
    \E i \in 1..(Len(out_tick.asks) - 1) :
        /\ out_tick.asks[i].price = out_tick.asks[i + 1].price
        /\ out_tick.asks[i].amount > out_tick.asks[i + 1].amount
        /\ out_tick.asks[i].exchange # out_tick.asks[i + 1].exchange

(* l comes strictly before m under the rule of its side: better price, or  *)
(* the same price and a larger amount.                                     *)
Before(side, l, m) ==
    \/ side = Bid /\ l.price > m.price
    \/ side = Ask /\ l.price < m.price
    \/ l.price = m.price /\ l.amount > m.amount

(* published is the first 10 of the stored levels in the order of side:    *)
(* it has min(10, stored) elements, each a stored level published no more  *)
(* often than it is stored, in order, and no stored level that was left    *)
(* out comes strictly before a published one.                              *)
FirstTenOf(published, stored, side) ==
    /\ Len(published) = (IF Len(stored) > 10 THEN 10 ELSE Len(stored))
    /\ \A l \in RangeOf(published) : Count(published, l) <= Count(stored, l)
    /\ \A i \in 1..(Len(published) - 1) :
           ~Before(side, published[i + 1], published[i])
    /\ \A l \in RangeOf(stored) :
           Count(published, l) < Count(stored, l) =>
               \A m \in RangeOf(published) : ~Before(side, l, m)

(* C4: the published bids (asks) are exactly the first 10 of all venues'   *)
(* stored bids (asks) sorted by the bid (ask) rule.                        *)
C4_FirstTenOfAllStored ==
    /\ FirstTenOf(out_tick.bids, AllStored(exchanges, Bid), Bid)
    /\ FirstTenOf(out_tick.asks, AllStored(exchanges, Ask), Ask)

(* Levels of both sides are left out, and a Coinbase bid is published      *)
(* ahead of a stored bid of another venue that is left out.                *)
C4_Witness ==
    /\ Len(AllStored(exchanges, Bid)) > 10
    /\ Len(AllStored(exchanges, Ask)) > 10
    /\ \E l \in RangeOf(out_tick.bids) :
           /\ l.exchange = Coinbase
           /\ \E m \in RangeOf(AllStored(exchanges, Bid)) :
                  /\ m.exchange # Coinbase
                  /\ m \notin RangeOf(out_tick.bids)
                  /\ l.price > m.price

(* C5: the spread is the lowest stored ask price minus the highest stored  *)
(* bid price (the prices of the first published ask and bid) when both     *)
(* sides are non-empty, 0 otherwise; it is negative when the best bid      *)
(* exceeds the best ask.                                                   *)
C5_Spread ==
    LET bids == AllStored(exchanges, Bid)
        asks == AllStored(exchanges, Ask)
    IN IF Len(bids) > 0 /\ Len(asks) > 0
       THEN /\ out_tick.spread = out_tick.asks[1].price - out_tick.bids[1].price
            /\ out_tick.spread = MinOf(PricesOf(asks)) - MaxOf(PricesOf(bids))
            /\ MaxOf(PricesOf(bids)) > MinOf(PricesOf(asks)) => out_tick.spread < 0
       ELSE out_tick.spread = 0

(* A crossed book: the published spread is negative. *)
C5_Witness ==
    /\ Len(out_tick.bids) > 0
    /\ Len(out_tick.asks) > 0
    /\ out_tick.bids[1].exchange # out_tick.asks[1].exchange
    /\ out_tick.spread < 0

(* C6: no published level has amount 0, whatever the venue. *)
C6_NoZeroAmountPublished ==
    /\ \A i \in 1..Len(out_tick.bids) : out_tick.bids[i].amount # 0
    /\ \A i \in 1..Len(out_tick.asks) : out_tick.asks[i].amount # 0

----------------------------------------------------------------------------
(* Vocabulary of the properties about one update of a delta venue *)

(* p is a better price than q on the given side. *)
Better(side, p, q) == IF side = Bid THEN p > q ELSE p < q

(* A level of venue e at price p is published on the given side. *)
PublishedAt(e, side, p) ==
    \E l \in RangeOf(SideOf(out_tick, side)) : l.exchange = e /\ l.price = p

(* The side of the last InTick if it came from venue e, else nothing. *)
Incoming(e, side) ==
    IF Handled /\ in_tick.exchange = e THEN SideOf(in_tick, side) ELSE <<>>

(* C7 as stated: after a Kraken or Coinbase InTick that contains a level   *)
(* at price p with amount 0 on some side, the venue stores no entry at p   *)
(* on that side and no level of the venue at p is published on that side.  *)
C7_ZeroAmountRemoves ==
    \A e \in DeltaVenues, side \in Side :
        \A i \in 1..Len(Incoming(e, side)) :
            LET l == Incoming(e, side)[i] IN
            l.amount = 0 =>
                /\ l.price \notin DOMAIN MapOf(exchanges, e, side)
                /\ ~PublishedAt(e, side, l.price)

(* C7 as amended: when the last level at price p on a side of a Kraken or  *)
(* Coinbase InTick has amount 0, the venue stores no entry at p on that    *)
(* side afterwards; a price the venue does not store stays absent unless   *)
(* the InTick's last level at p on that side is non-zero; and a level of   *)
(* the venue is published only at a price the venue stores.                *)
C7_LastZeroAmountRemoves ==
    \A e \in DeltaVenues, side \in Side, p \in Prices :
        LET levels  == Incoming(e, side)
            carried == p \in PricesOf(levels)
            stored  == p \in DOMAIN MapOf(exchanges, e, side)
            before  == p \in DOMAIN MapOf(prev_exchanges, e, side)
        IN /\ carried /\ LastAt(levels, p).amount = 0 => ~stored
           /\ ~before /\ ~(carried /\ LastAt(levels, p).amount # 0) => ~stored
           /\ PublishedAt(e, side, p) => stored

(* A level a delta venue stored has been removed by an InTick whose last   *)
(* level at that price has amount 0.                                       *)
C7_Witness ==
    \E e \in DeltaVenues, side \in Side, p \in Prices :
        /\ p \in PricesOf(Incoming(e, side))
        /\ LastAt(Incoming(e, side), p).amount = 0
        /\ p \in DOMAIN MapOf(prev_exchanges, e, side)
        /\ p \notin DOMAIN MapOf(exchanges, e, side)

(* The non-zero levels among the previously stored levels of venue e plus  *)
(* the incoming ones (an incoming level stands for its price).             *)
Candidates(e, side) ==
    LET levels == Incoming(e, side)
        held   == MapOf(prev_exchanges, e, side)
        all    == {LastAt(levels, p) : p \in PricesOf(levels)}
                      \cup {held[p] : p \in (DOMAIN held) \ PricesOf(levels)}
    IN {l \in all : l.amount # 0}

(* The 10 best priced levels of a set: highest for bids, lowest for asks. *)
BestTen(S, side) ==
    {l \in S : Cardinality({m \in S : Better(side, m.price, l.price)}) < 10}

(* C8: after an update of Kraken or Coinbase the stored bids are the 10    *)
(* highest-priced and the stored asks the 10 lowest-priced non-zero levels *)
(* among the previously stored plus the incoming levels.                   *)
C8_BestTenKept ==
    \A e \in DeltaVenues, side \in Side :
        Handled /\ in_tick.exchange = e =>
            RangeOf(Stored(exchanges, e, side)) = BestTen(Candidates(e, side), side)

(* C9: a non-zero level of a Kraken or Coinbase update priced strictly     *)
(* better than every level the venue tracks (and than the other incoming   *)
(* levels) is the venue's best level afterwards, and the first published   *)
(* level of its side when every level of the other venues is worse priced. *)
C9_NewBestIsBest ==
    \A e \in DeltaVenues, side \in Side :
        LET levels == Incoming(e, side)
            held   == MapOf(prev_exchanges, e, side)
            now    == MapOf(exchanges, e, side)
        IN \A p \in PricesOf(levels) :
            LET l == LastAt(levels, p) IN
            ( /\ l.amount # 0
              /\ \A q \in DOMAIN held : Better(side, p, q)
              /\ \A q \in PricesOf(levels) \ {p} : Better(side, p, q) )
            => /\ p \in DOMAIN now
               /\ now[p] = l
               /\ \A q \in (DOMAIN now) \ {p} : Better(side, p, q)
               /\ (\A m \in RangeOf(AllStored(exchanges, side)) :
                       m.exchange # e => Better(side, p, m.price))
                   => SideOf(out_tick, side)[1] = l

(* C10: after a Bitstamp or Binance InTick the venue stores exactly the    *)
(* tick's bid list and ask list, in the tick's order.                      *)
C10_SnapshotReplaces ==
    \A e \in ListVenues :
        Handled /\ in_tick.exchange = e =>
            /\ exchanges[e].bids = in_tick.bids
            /\ exchanges[e].asks = in_tick.asks

(* A Bitstamp tick replaced a non-empty book holding a level it does not   *)
(* carry.                                                                  *)
C10_Witness ==
    /\ Handled
    /\ in_tick.exchange = Bitstamp
    /\ Len(in_tick.bids) > 0
    /\ \E l \in RangeOf(prev_exchanges.bitstamp.bids) : l \notin RangeOf(in_tick.bids)
    /\ \E l \in RangeOf(prev_exchanges.bitstamp.asks) : l \notin RangeOf(in_tick.asks)
    /\ exchanges.bitstamp.bids = in_tick.bids

(* The venue books after t1 and then t2 are applied to ex. *)
After(ex, t1, t2) == Update(Update(ex, t1), t2)

(* C18: updates of two different venues commute: whatever the books were   *)
(* before the InTick handled last, applying any InTick of another venue to *)
(* the books it left gives the same venue books as applying the two the    *)
(* other way round, and so the same OutTicks to compute from them.         *)
(* Swapping neighbours of different venues turns any interleaving that     *)
(* keeps each venue's order into any other.                                *)
C18_VenuesCommute ==
    Handled =>
        \A e \in Exchange \ {in_tick.exchange} :
            \A t \in TicksOf(e) :
                Update(exchanges, t) = After(prev_exchanges, t, in_tick)

(* Two InTicks of different venues were handled, each storing a level, on  *)
(* books that differ from those the other order passes through.            *)
C18_Witness ==
    /\ nticks = 2
    /\ \E e \in Exchange \ {in_tick.exchange} :
           /\ Stored(prev_exchanges, e, Bid) # <<>>
           /\ Stored(exchanges, in_tick.exchange, Ask) # <<>>
           /\ Stored(prev_exchanges, in_tick.exchange, Ask) = <<>>

----------------------------------------------------------------------------
(* Claims on the stream service *)

(* Every item caller s holds is the Summary of the value the channel held  *)
(* at the version the item was read at.                                    *)
ReadAtItsVersion(s) ==
    \A i \in 1..Len(received[s]) :
        received[s][i].value = SummaryFrom(ValueAt(received[s][i].ver))

(* C11: the reply to a check call and the first item of a book_summary     *)
(* stream equal the value the broadcast slot holds when it is read, which  *)
(* is the last value sent, or the default OutTick when nothing was sent;   *)
(* and the first item is produced without waiting for another send.        *)
C11_FirstReadIsCurrent ==
    /\ out_tick = ValueAt(version)
    /\ \A s \in Clients :
        /\ ReadAtItsVersion(s)
        /\ pc[s] = "first" => ENABLED SubFirst(s)
        /\ pc[s] = "reading" => ENABLED ChkRead(s)

(* One caller got a check reply and another its first stream item, both    *)
(* read after a send and both other than the default.                      *)
C11_Witness ==
    \E s, t \in Clients :
        /\ pc[s] = "replied" /\ pc[t] = "wait"
        /\ Len(received[s]) = 1 /\ Len(received[t]) = 1
        /\ received[s][1].ver >= 1 /\ received[t][1].ver >= 1
        /\ received[s][1].value # SummaryFrom(OutTickNew)
        /\ received[t][1].value # SummaryFrom(OutTickNew)

(* Caller s reads a stream (it did not call check). *)
Streams(s) == pc[s] \in {"first", "wait", "woken", "gone"}

(* C12: on a book_summary stream every item after the first is read at a   *)
(* version later than the one the item before it was read at, so the value *)
(* current at connect time is delivered once and no send is delivered      *)
(* twice.                                                                  *)
C12_NoPublishTwice ==
    \A s \in Clients :
        (Streams(s) /\ Len(received[s]) = 2) =>
            received[s][1].ver < received[s][2].ver

PublishingStopped == nticks = MaxTicks /\ pub_pc = "select"

(* Caller s has been given the value the slot holds, as its last item. *)
HasLatest(s) ==
    /\ received[s] # <<>>
    /\ received[s][Len(received[s])].value = SummaryFrom(out_tick)

(* The stream of s has nothing left to deliver. *)
Settled(s) == pc[s] = "wait" /\ seen[s] = version /\ HasLatest(s)

(* C14: once T1..Tn are sent and sending has stopped, every subscriber     *)
(* that keeps reading its stream (its stream steps are taken whenever they *)
(* stay possible) comes to hold Tn as its last item, and from then on      *)
(* receives nothing else.                                                  *)
C14_EventuallyLatest ==
    /\ \A s \in Clients :
           WF_vars(StreamStep(s)) =>
               ((PublishingStopped /\ pc[s] \in {"first", "wait", "woken"})
                    ~> (Settled(s) \/ pc[s] = "gone"))
    /\ [][\A s \in Clients :
              (PublishingStopped /\ Settled(s)) =>
                  received'[s] = received[s]]_vars

(* Two sends with different values were made, sending has stopped, and a   *)
(* stream that was open before the last send holds the last value.         *)
C14_Witness ==
    \E s \in Clients :
        /\ PublishingStopped /\ version = MaxTicks
        /\ sent[MaxTicks] # sent[MaxTicks - 1]
        /\ Settled(s) /\ Len(received[s]) = 2
        /\ received[s][1].ver < MaxTicks

(* The callers that stand between taking the read guard and dropping it. *)
InsideGuard == {s \in Clients : pc[s] \in {"cloning", "reading"}}

(* C15: a read guard of the slot is held only between read() being granted *)
(* and the clone or borrow that follows, never while a stream waits for a  *)
(* change or for its client; whoever holds or awaits the lock can always   *)
(* be followed by a step that releases or takes it; and every send the     *)
(* ingress branch has started is made.                                     *)
C15_PublishCompletes ==
    /\ [](readers = InsideGuard)
    /\ []((pub_pc = "write" \/ readers # {}) =>
             \/ ENABLED PubLock
             \/ \E s \in readers : ENABLED SubClone(s) \/ ENABLED ChkRead(s))
    /\ \A n \in 0..MaxTicks :
           (pub_pc = "write" /\ version = n) ~> (version = n + 1)

(* The ingress branch waits for the write guard while one caller holds a   *)
(* read guard and the other sits on an item its client has not taken.      *)
C15_Witness ==
    \E s, t \in Clients :
        /\ pub_pc = "write"
        /\ s \in readers
        /\ pc[t] = "woken"

(* What caller s can observe and what its own steps depend on: its place,  *)
(* its receiver, its items, the channel, and whether read() is granted.    *)
ViewOf(s) == <<pc[s], seen[s], received[s], version, out_tick, pub_pc>>

(* C16: a step of another caller, be it a call, a read of its stream, fast *)
(* or slow, or a disconnect, leaves everything a subscriber has received   *)
(* and everything its further steps depend on as it was; and a subscriber  *)
(* that keeps reading comes to hold the last value sent without any        *)
(* assumption on what the other callers do.                                *)
C16_Independence ==
    /\ [][\A s, t \in Clients :
              (s # t /\ ClientStep(t)) => (ViewOf(s))' = ViewOf(s)]_vars
    /\ \A s \in Clients :
           WF_vars(StreamStep(s)) =>
               [](PublishingStopped /\ pc[s] \in {"first", "wait", "woken"}
                      => <>(HasLatest(s) \/ pc[s] = "gone"))

(* A subscriber holds the last value sent, delivered after an earlier one, *)
(* while the other caller has received an item and disconnected.           *)
C16_Witness ==
    \E s, t \in Clients :
        /\ s # t
        /\ pc[t] = "gone" /\ received[t] # <<>>
        /\ PublishingStopped /\ Settled(s)
        /\ Len(received[s]) = 2
        /\ received[s][1].ver < received[s][2].ver

----------------------------------------------------------------------------
(* Claims on the supervisor *)

(* C17: the InTicks decoded from one venue's frames are applied to the     *)
(* books in the order their frames arrived, however the enqueue tasks are  *)
(* scheduled: per venue the arrival numbers of the applied ticks increase. *)
C17_AppliedInArrivalOrder ==
    \A e \in Exchange :
        \A i, j \in 1..Len(applied[e]) :
            i < j => applied[e][i] < applied[e][j]

(* The loop was left because handling a session's frame gave an error. *)
LeftOnError == cause = "adapter_error"

(* Nothing the loop does can happen: no session frame is handled, no       *)
(* InTick is taken from the ingress channel, no line is forwarded.         *)
LoopIdle ==
    /\ \A e \in Exchange :
        /\ ~ENABLED FramePasses(e)
        /\ \A kind \in FailureKinds : ~ENABLED FrameFails(e, kind)
        /\ \A t \in RunTicks(e) : ~ENABLED FrameTick(e, t)
    /\ \A tie \in BOOLEAN : ~ENABLED Drain(tie)
    /\ ~ENABLED StdinLine /\ ~ENABLED StdinExit /\ ~ENABLED StdinClosed

C20_OutcomeTellsCause ==
    sup = "returned" =>
        /\ cause = "stdin_closed" => result = "Ok"
        /\ cause = "adapter_error" => result = "Err"

----------------------------------------------------------------------------
(* Claims on the adapters and on the close of the sessions *)

(* C21: websocket::close never panics, whatever number of items its        *)
(* session still yields when it is called, and it is done only when the    *)
(* session's stream has been consumed to its end.                          *)
C21_CloseDrains ==
    \A e \in Exchange :
        /\ ws_pc[e] # "panicked"
        /\ ws_pc[e] = "closed" => inbound[e] = 0

(* parse has been applied to the frame. *)
Parsed == parsed # NotParsed

(* The frame is a text whose document is d. *)
IsText(d) == frame.message.kind = "Text" /\ frame.message.text = d

(* C23: a text frame that is a well-formed document with a discriminator   *)
(* the adapter has no variant for gives Ok(None): no InTick and no error.  *)
C23_UnknownTagIgnored ==
    (Parsed /\ IsText(TagOnly(UnknownTag))) => parsed = Ok(None)

(* The document of a text frame carries depth. *)
CarriesDepth(d) == d.doc \in {"book", "update", "l2update"}

EntriesOf(option) == IF option.some THEN option.entries ELSE <<>>

Carried(d, side) ==
    CASE d.doc = "book" -> IF side = Bid THEN d.bids ELSE d.asks
      [] d.doc = "l2update" ->
             IF side = Bid THEN SelectSeq(d.changes, IsBuy)
                           ELSE SelectSeq(d.changes, IsSell)
      [] d.doc = "update" ->
             LET p == d.payloads
                 of(i) == IF side = Bid THEN EntriesOf(p[i].b)
                                        ELSE EntriesOf(p[i].a)
             IN  IF Len(p) = 1 THEN of(1) ELSE of(1) \o of(2)

(* No side is carried by both payload objects of a Kraken message. *)
OnePayloadPerSide(d) ==
    (d.doc = "update" /\ Len(d.payloads) = 2) =>
        /\ ~ (d.payloads[1].b.some /\ d.payloads[2].b.some)
        /\ ~ (d.payloads[1].a.some /\ d.payloads[2].a.some)

(* The first Depth entries, as levels of side and venue. *)
FirstEntries(entries, side, e) ==
    [i \in 1..(IF Len(entries) > Depth THEN Depth ELSE Len(entries)) |->
        Level(side, entries[i].price, entries[i].amount, e)]

----------------------------------------------------------------------------
(* Claims on the venue flags and on decode failures *)

(* The levels an OutTick carries. *)
LevelsOf(t) == RangeOf(t.bids) \cup RangeOf(t.asks)

(* C22: a venue whose no_<venue> flag is set never gets a message decoded: *)
(* no InTick of it is counted, spawned for enqueueing, on the ingress      *)
(* channel or applied, its book is empty, and the slot's value holds no    *)
(* level of it.                                                            *)
C22_FlaggedVenueSilent ==
    \A e \in no_venue :
        /\ arrived[e] = 0
        /\ \A task \in spawned : task.exchange # e
        /\ \A i \in 1..Len(ingress) : ingress[i].exchange # e
        /\ applied[e] = <<>>
        /\ Stored(exchanges, e, Bid) = <<>>
        /\ Stored(exchanges, e, Ask) = <<>>
        /\ \A l \in LevelsOf(out_tick) : l.exchange # e

(* One venue is switched off, its session's frames can still be taken, and *)
(* the InTicks of the other venues have been applied and published.        *)
C22_Witness ==
    /\ no_venue # {}
    /\ sup = "loop"
    /\ \A e \in no_venue : ENABLED FramePasses(e)
    /\ nticks = MaxTicks
    /\ out_tick.bids # <<>>

(* C25: the step of a session branch whose message fails to decode changes *)
(* no book, publishes nothing, and spawns and enqueues nothing.            *)
C25_DecodeFailureKeepsState ==
    [][(\E e \in Exchange : FrameFails(e, "undecodable")) =>
           /\ exchanges' = exchanges
           /\ out_tick' = out_tick
           /\ nticks' = nticks
           /\ version' = version
           /\ sent' = sent
           /\ spawned' = spawned
           /\ ingress' = ingress
           /\ applied' = applied]_vars

(* The loop has just been left on a session's error, with one InTick       *)
(* applied and another decoded and not yet enqueued.                       *)
C25_Witness ==
    /\ LeftOnError
    /\ sup = "closing"
    /\ nticks = 1
    /\ spawned # {}

----------------------------------------------------------------------------
(* Claims on the slot and on the published order *)

(* A stream that has yielded everything sent and waits in changed(). *)
CaughtUp(s) == pc[s] = "wait" /\ seen[s] = version

(* C26: once the loop has been left on a session's error and run is over,  *)
(* every open stream ends: its changed() returns Err because the slot's    *)
(* Sender has been dropped.                                                *)
C26_StreamsEndAfterError ==
    (LeftOnError /\ sup = "returned") =>
        \A s \in Clients : CaughtUp(s) => Changed(s) = "Err"

(* C27: the published order of the stored levels is unique: levels of      *)
(* equal price and amount from different venues come in one fixed order,   *)
(* whatever the sort does with elements that compare Equal.                *)
C27_OrderUnique ==
    Handled => \A tie \in BOOLEAN : out_tick = ToTick(exchanges, tie)

(* C29: each InTick taken causes one update of the books and then one      *)
(* send, in the order taken; between two InTicks the slot holds the last   *)
(* value sent, which is to_tick of the books (OutTick::new() before the    *)
(* first InTick), and inside the branch the value about to be sent is.     *)
C29_OneUpdateOnePublish ==
    /\ Len(sent) = version
    /\ out_tick = ValueAt(version)
    /\ pub_pc = "select" =>
           /\ version = nticks
           /\ \E tie \in BOOLEAN : out_tick = ToTick(exchanges, tie)
           /\ nticks = 0 => out_tick = OutTickNew
    /\ pub_pc # "select" =>
           /\ version = nticks - 1
           /\ \E tie \in BOOLEAN : new_tick = ToTick(exchanges, tie)

(* Two InTicks have been taken and published, and the slot holds a value   *)
(* with both sides.                                                        *)
C29_Witness ==
    /\ pub_pc = "select"
    /\ nticks = MaxTicks
    /\ version = MaxTicks
    /\ out_tick.bids # <<>>
    /\ out_tick.asks # <<>>

(* C30: whenever the ingress branch is about to send, the channel has a    *)
(* Receiver, the stored one, also when no stream is open.                  *)
C30_SendFindsReceiver ==
    pub_pc = "send" => (Receivers # {} /\ "connector" \in Holders)

(* The ingress branch is about to send after every caller that had a       *)
(* stream open has gone.                                                   *)
C30_Witness ==
    /\ pub_pc = "send"
    /\ \A s \in Clients : pc[s] = "gone"

----------------------------------------------------------------------------
(* C31: applying an InTick of one venue leaves the stored bids and asks of *)
(* the three other venues as they were.                                    *)
C31_OtherVenuesUntouched ==
    Handled =>
        \A e \in Exchange \ {in_tick.exchange} :
            exchanges[e] = prev_exchanges[e]

(* The last InTick changed the book of its venue while another venue held  *)
(* levels on both sides.                                                   *)
C31_Witness ==
    /\ Handled
    /\ exchanges[in_tick.exchange] # prev_exchanges[in_tick.exchange]
    /\ \E e \in Exchange \ {in_tick.exchange} :
           /\ Stored(exchanges, e, Bid) # <<>>
           /\ Stored(exchanges, e, Ask) # <<>>

(* Every level of the last InTick has amount 0 and sits at a price venue e *)
(* did not store on that side.                                             *)
OnlyUntrackedRemovals(e) ==
    /\ Handled
    /\ in_tick.exchange = e
    /\ \A side \in Side :
           \A l \in RangeOf(SideOf(in_tick, side)) :
               /\ l.amount = 0
               /\ l.price \notin DOMAIN MapOf(prev_exchanges, e, side)

(* C32: for Kraken and Coinbase an update whose levels all have amount 0   *)
(* at prices the venue does not store leaves the venue's book unchanged.   *)
C32_UntrackedRemovalIsNoOp ==
    \A e \in DeltaVenues :
        OnlyUntrackedRemovals(e) => exchanges[e] = prev_exchanges[e]

(* A delta venue holding levels has handled an update that removes a price *)
(* it did not store.                                                       *)
C32_Witness ==
    \E e \in DeltaVenues :
        /\ OnlyUntrackedRemovals(e)
        /\ in_tick.bids \o in_tick.asks # <<>>
        /\ Stored(prev_exchanges, e, Bid) \o Stored(prev_exchanges, e, Ask) # <<>>

SnapshotTick(e) == InTick(e, SnapshotBids(e, 1), SnapshotAsks(e, 1))

(* C35: a snapshot of Kraken or Coinbase fully replaces the venue's book:  *)
(* a level the venue stored before the snapshot and that the snapshot does *)
(* not contain is not stored afterwards.                                   *)
C35_SnapshotReplacesBook ==
    \A e \in DeltaVenues, side \in Side :
        Handled /\ in_tick = SnapshotTick(e) =>
            \A p \in DOMAIN MapOf(prev_exchanges, e, side) :
                p \notin PricesOf(SideOf(in_tick, side)) =>
                    p \notin DOMAIN MapOf(exchanges, e, side)

(* C37: applying the InTick handled last once more leaves the venue books  *)
(* and the OutTick as they are, whatever the books were before, also when  *)
(* the update cut a side down to 10 levels.                                *)
C37_UpdateIdempotent ==
    Handled =>
        /\ Update(exchanges, in_tick) = exchanges
        /\ \A tie \in BOOLEAN :
               ToTick(Update(exchanges, in_tick), tie) = ToTick(exchanges, tie)

(* An update of a delta venue had more than 10 non-zero candidates on a    *)
(* side, changed the book, and left levels on that side.                   *)
C37_Witness ==
    \E e \in DeltaVenues, side \in Side :
        /\ Handled
        /\ in_tick.exchange = e
        /\ Cardinality(Candidates(e, side)) > Depth
        /\ exchanges[e] # prev_exchanges[e]
        /\ Len(Stored(exchanges, e, side)) = Depth

(* The Kraken books a message is applied to: the empty book and the book   *)
(* a snapshot leaves.                                                      *)
KrakenBooks ==
    {OrderDepthsMapNew, UpdateMap(OrderDepthsMapNew, SnapshotTick(Kraken))}

(* The InTick of a Kraken message made of the one payload object. *)
TickOfPayload(payload) == MaybeToTick(Kraken, Updates(<<payload>>)).tick

(* C34: a Kraken message with two payload objects has the effect on the    *)
(* Kraken book of the first payload's bid and ask updates followed by the  *)
(* second payload's, whatever sides the two payloads carry.                *)
C34_PayloadsInOrder ==
    \A d \in Documents(Kraken) :
        ( /\ Parsed
          /\ frame.exchange = Kraken
          /\ IsText(d)
          /\ d.doc = "update"
          /\ Len(d.payloads) = 2 )
        => /\ parsed.ok
           /\ parsed.value.some
           /\ \A book \in KrakenBooks :
                  UpdateMap(book, parsed.value.tick)
                      = UpdateMap(UpdateMap(book, TickOfPayload(d.payloads[1])),
                                  TickOfPayload(d.payloads[2]))

----------------------------------------------------------------------------
(* Every InTick decoded so far has been applied to its venue's book (and  *)
(* published: the ingress branch applies and publishes in one pass).       *)
AllApplied ==
    \A e \in Exchange : \A k \in 1..arrived[e] : k \in RangeOf(applied[e])

(* C36: while the supervisor loop keeps running, every InTick decoded from *)
(* a frame is eventually enqueued, applied to its venue's book and         *)
(* published: whenever a decoded InTick is waiting, as a spawned task or   *)
(* on the ingress channel, a state follows in which every InTick decoded   *)
(* until then has been applied, unless the loop is left first.             *)
C36_DecodedIsApplied == (~AllApplied) ~> (AllApplied \/ sup # "loop")

(* With the loop running, every InTick decoded has been enqueued, applied  *)
(* and published, the last one after waiting on the channel behind others. *)
C36_Witness ==
    /\ sup = "loop"
    /\ Decoded = MaxTicks
    /\ spawned = {}
    /\ ingress = <<>>
    /\ nticks = MaxTicks
    /\ out_tick.bids # <<>>

(* C38: enqueueing a decoded InTick on the ingress channel never fails,    *)
(* also for a task that was spawned and has not run when run returns.      *)
C38_EnqueueNeverFails == ~send_failed

----------------------------------------------------------------------------
(* C39: the supervisor forwards to Coinbase one text frame per line read   *)
(* from standard input, in order, and nothing else: the frames forwarded   *)
(* are never more than the lines read, /exit is the last one forwarded,    *)
(* and once standard input has ended no frame is forwarded that is not a   *)
(* line read before.                                                       *)
C39_ForwardsLinesRead ==
    /\ Len(forwarded) <= LinesRead
    /\ \A i \in 1..Len(forwarded) :
           /\ forwarded[i] # NoLine
           /\ forwarded[i] = "/exit" => i = Len(forwarded)

====
